---- MODULE Spec2Model ----
(***************************************************************************)
(* Model of the esp32 HTTP server firmware (src/app/src/main.rs).          *)
(*                                                                         *)
(* main() acquires the peripherals and the system event loop, calls        *)
(* wifi(...) to bring the radio up, constructs the HTTP server, registers  *)
(* the GET "/" handler and then sleeps forever.  The body of wifi(...)     *)
(* lives in the `wifi` crate, which is not part of src/; its bring-up      *)
(* state machine is modelled from section 4.1 of the specification.        *)
(***************************************************************************)
EXTENDS Naturals, Sequences, FiniteSets, TLC

VARIABLES
    CONFIG,        \* the toml_config constant: [wifi_ssid, wifi_psk, wifi_ap]
    pc,            \* position of main()
    peripherals,   \* "available" | "unavailable" | "taken"
    exit,          \* "running" | "err" (main returned Err) | "panic"
    mainErr,       \* the error main returned, "none" while there is none
    wifiResult,    \* what wifi(...) returned to main: "none" | "Ready" | error
    wifiHandle,    \* the _wifi binding: "none" | "held" | "dropped"
    config,        \* the BringUpConfig the controller was called with
    phase,         \* bring-up controller phase
    wifiErr,       \* BringUpError of a Failed bring-up, "none" otherwise
    addr,          \* assigned address, "none" while there is none
    timer,         \* ticks waited in the current blocking phase
    log,           \* interface calls and lifecycle events, in order
    server,        \* EspHttpServer: "none" | "running" | "dropped"
    routes,        \* registered handlers: sequence of [uri, method]
    served,        \* requests answered 200
    failed,        \* requests whose handler returned Err
    lastResponse,  \* outcome of the latest request
    sleeps         \* iterations of the idle loop

vars == <<CONFIG, pc, peripherals, exit, mainErr, wifiResult, wifiHandle,
          config, phase, wifiErr, addr, timer, log, server, routes, served,
          failed, lastResponse, sleeps>>

mainVars == <<pc, peripherals, exit, mainErr, wifiResult, wifiHandle>>
ctlVars == <<config, phase, wifiErr, addr, timer, log>>
httpVars == <<server, routes, served, failed, lastResponse>>

----------------------------------------------------------------------------
(* Bounds of the model *)

AssocTimeout == 2
AddrTimeout == 2
MaxRequests == 3
MaxSleeps == 2

Ssids == {"", "HomeNet"}
Psks == {"", "x", "secret123"}
Addresses == {"192.168.71.2"}

NoConfig == [ssid |-> "", psk |-> "", ap |-> FALSE]

----------------------------------------------------------------------------
(* Static content: templated() and index_html() *)

templated(content) ==
    "\n<!DOCTYPE html>\n<html>\n    <head>\n        <meta charset=\"utf-8\">\n"
    \o "        <title>esp-rs web server</title>\n    </head>\n    <body>\n        "
    \o content
    \o "\n    </body>\n</html>\n"

\* The sparkles character of the source (U+2728), which a TLA+ string
\* cannot hold, is written by its code point.
Sparkles == "U+2728"

index_html == templated(Sparkles \o " Quint was here!")

----------------------------------------------------------------------------
(* Config: the defaults of the toml_config struct *)

DefaultConfig == [wifi_ssid |-> "", wifi_psk |-> "", wifi_ap |-> FALSE]

Configs == [wifi_ssid : Ssids, wifi_psk : Psks, wifi_ap : BOOLEAN]

Init ==
    /\ CONFIG \in Configs
    /\ pc = "take_peripherals"
    /\ peripherals \in {"available", "unavailable"}
    /\ exit = "running"
    /\ mainErr = "none"
    /\ wifiResult = "none"
    /\ wifiHandle = "none"
    /\ config = NoConfig
    /\ phase = "Idle"
    /\ wifiErr = "none"
    /\ addr = "none"
    /\ timer = 0
    /\ log = <<>>
    /\ server = "none"
    /\ routes = <<>>
    /\ served = 0
    /\ failed = 0
    /\ lastResponse = [status |-> "none", body |-> ""]
    /\ sleeps = 0

----------------------------------------------------------------------------
(* main(): lines 30-62 *)

\* main returns Err(e): every live binding is dropped, the process exits.
ReturnErr(e) ==
    /\ pc' = "exited"
    /\ exit' = "err"
    /\ mainErr' = e
    /\ wifiHandle' = IF wifiHandle = "held" THEN "dropped" ELSE wifiHandle
    /\ server' = IF server = "running" THEN "dropped" ELSE server

\* Variant: the result of take() is not checked.
TakePeripheralsUnchecked ==
    /\ pc = "take_peripherals"
    /\ peripherals' = IF peripherals = "available" THEN "taken" ELSE peripherals
    /\ pc' = "take_sysloop"
    /\ UNCHANGED <<CONFIG, exit, mainErr, wifiResult, wifiHandle>>
    /\ UNCHANGED <<ctlVars, httpVars, sleeps>>

\* Peripherals::take().unwrap()
TakePeripherals ==
    /\ pc = "take_peripherals"
    /\ IF peripherals = "available"
       THEN /\ peripherals' = "taken"
            /\ pc' = "take_sysloop"
            /\ exit' = exit
       ELSE /\ peripherals' = peripherals
            /\ pc' = "exited"
            /\ exit' = "panic"
    /\ UNCHANGED <<CONFIG, mainErr, wifiResult, wifiHandle>>
    /\ UNCHANGED <<ctlVars, httpVars, sleeps>>

\* EspSystemEventLoop::take()?
TakeSysloop ==
    /\ pc = "take_sysloop"
    /\ \/ /\ pc' = "call_wifi"
          /\ UNCHANGED <<exit, mainErr, wifiHandle, server>>
       \/ ReturnErr("EspError")
    /\ UNCHANGED <<CONFIG, peripherals, wifiResult>>
    /\ UNCHANGED <<ctlVars, routes, served, failed, lastResponse, sleeps>>

\* Variant: ssid and psk passed in the wrong order.
WifiArgsSwapped ==
    [ssid |-> CONFIG.wifi_psk, psk |-> CONFIG.wifi_ssid, ap |-> CONFIG.wifi_ap]

\* Variant: the mode flag is passed as a literal true.
WifiArgsAlwaysAp ==
    [ssid |-> CONFIG.wifi_ssid, psk |-> CONFIG.wifi_psk, ap |-> TRUE]

\* Variant: the mode flag is passed as a literal false.
WifiArgsAlwaysStation ==
    [ssid |-> CONFIG.wifi_ssid, psk |-> CONFIG.wifi_psk, ap |-> FALSE]

\* The arguments main passes to wifi(...).
WifiArgs ==
    [ssid |-> CONFIG.wifi_ssid, psk |-> CONFIG.wifi_psk, ap |-> CONFIG.wifi_ap]

\* wifi(app_config.wifi_ssid, app_config.wifi_psk, modem, sysloop, wifi_ap):
\* the modem moves into the controller, which leaves Idle.
CallWifi ==
    /\ pc = "call_wifi"
    /\ phase = "Idle"
    /\ pc' = "in_wifi"
    /\ config' = WifiArgs
    /\ phase' = "Configuring"
    /\ UNCHANGED <<CONFIG, peripherals, exit, mainErr, wifiResult, wifiHandle>>
    /\ UNCHANGED <<wifiErr, addr, timer, log, httpVars, sleeps>>

\* let _wifi = wifi(...)?  -- Ok branch
WifiReturnOk ==
    /\ pc = "in_wifi"
    /\ phase = "Ready"
    /\ wifiResult' = "Ready"
    /\ wifiHandle' = "held"
    /\ pc' = "server_new"
    /\ UNCHANGED <<CONFIG, peripherals, exit, mainErr>>
    /\ UNCHANGED <<ctlVars, httpVars, sleeps>>

\* Variant: the error of wifi(...) is discarded and main carries on.
WifiReturnErrIgnored ==
    /\ pc = "in_wifi"
    /\ phase = "Failed"
    /\ wifiResult' = wifiErr
    /\ pc' = "server_new"
    /\ UNCHANGED <<CONFIG, peripherals, exit, mainErr, wifiHandle>>
    /\ UNCHANGED <<ctlVars, httpVars, sleeps>>

\* Variant: the error of wifi(...) is replaced by another one.
WifiReturnErrWrapped ==
    /\ pc = "in_wifi"
    /\ phase = "Failed"
    /\ wifiResult' = wifiErr
    /\ ReturnErr("BootstrapError")
    /\ UNCHANGED <<CONFIG, peripherals>>
    /\ UNCHANGED <<ctlVars, routes, served, failed, lastResponse, sleeps>>

\* Variant: main retries the bring-up on the same radio after a failure.
WifiReturnErrRetry ==
    /\ pc = "in_wifi"
    /\ phase = "Failed"
    /\ phase' = "Configuring"
    /\ wifiErr' = "none"
    /\ timer' = 0
    /\ log' = <<>>
    /\ UNCHANGED <<CONFIG, mainVars, config, addr, httpVars, sleeps>>

\* let _wifi = wifi(...)?  -- Err branch: the error is returned from main
WifiReturnErr ==
    /\ pc = "in_wifi"
    /\ phase = "Failed"
    /\ wifiResult' = wifiErr
    /\ ReturnErr(wifiErr)
    /\ UNCHANGED <<CONFIG, peripherals>>
    /\ UNCHANGED <<ctlVars, routes, served, failed, lastResponse, sleeps>>

\* EspHttpServer::new(&Configuration::default())?
ServerNew ==
    /\ pc = "server_new"
    /\ \/ /\ server' = "running"
          /\ pc' = "fn_handler"
          /\ UNCHANGED <<exit, mainErr, wifiHandle>>
       \/ ReturnErr("EspError")
    /\ UNCHANGED <<CONFIG, peripherals, wifiResult>>
    /\ UNCHANGED <<ctlVars, routes, served, failed, lastResponse, sleeps>>

\* server.fn_handler("/", Method::Get, |request| ...)?
FnHandler ==
    /\ pc = "fn_handler"
    /\ \/ /\ routes' = Append(routes, [uri |-> "/", method |-> "GET"])
          /\ pc' = "println"
          /\ UNCHANGED <<exit, mainErr, wifiHandle, server>>
       \/ /\ ReturnErr("EspError")
          /\ routes' = routes
    /\ UNCHANGED <<CONFIG, peripherals, wifiResult>>
    /\ UNCHANGED <<ctlVars, served, failed, lastResponse, sleeps>>

\* println!("Server awaiting connection")
Println ==
    /\ pc = "println"
    /\ pc' = "idle"
    /\ UNCHANGED <<CONFIG, peripherals, exit, mainErr, wifiResult, wifiHandle>>
    /\ UNCHANGED <<ctlVars, httpVars, sleeps>>

\* Variant: the loop ends after one sleep and main returns Ok(()).
IdleSleepOnce ==
    /\ pc = "idle"
    /\ sleeps < MaxSleeps
    /\ sleeps' = sleeps + 1
    /\ pc' = "exited"
    /\ exit' = "ok"
    /\ wifiHandle' = "dropped"
    /\ server' = "dropped"
    /\ UNCHANGED <<CONFIG, peripherals, mainErr, wifiResult>>
    /\ UNCHANGED <<ctlVars, routes, served, failed, lastResponse>>

\* loop { sleep(Duration::from_millis(1000)); }
IdleSleep ==
    /\ pc = "idle"
    /\ sleeps < MaxSleeps
    /\ sleeps' = sleeps + 1
    /\ UNCHANGED <<CONFIG, mainVars, ctlVars, httpVars>>

MainNext ==
    \/ TakePeripherals
    \/ TakeSysloop
    \/ CallWifi
    \/ WifiReturnOk
    \/ WifiReturnErr
    \/ ServerNew
    \/ FnHandler
    \/ Println
    \/ IdleSleep

----------------------------------------------------------------------------
(* Network bring-up controller: wifi(ssid, psk, modem, sysloop, ap).       *)
(* Modelled from section 4.1 of the specification (the wifi crate is not  *)
(* among the sources).                                                     *)

MinPskLen == 8

\* BringUpConfig invariant (section 3).
ValidConfig(c) ==
    /\ (~c.ap => c.ssid # "")
    /\ (c.ap /\ c.psk # "" => Len(c.psk) >= MinPskLen)

InLog(e) == \E i \in 1..Len(log) : log[i] = e

Fail(e) ==
    /\ phase' = "Failed"
    /\ wifiErr' = e

\* Configuring: pre-check, then apply the configuration to the interface.
Configure ==
    /\ pc = "in_wifi"
    /\ phase = "Configuring"
    /\ IF ~ValidConfig(config)
       THEN /\ Fail("ConfigInvalid")
            /\ log' = log
       ELSE \/ /\ log' = Append(log, "set_configuration")
               /\ phase' = "Starting"
               /\ wifiErr' = wifiErr
            \/ /\ log' = Append(log, "set_configuration")
               /\ Fail("HardwareFault")
    /\ UNCHANGED <<CONFIG, mainVars, config, addr, timer, httpVars, sleeps>>

\* Starting: start the interface; it reports "started" or fails.
StartIface ==
    /\ pc = "in_wifi"
    /\ phase = "Starting"
    /\ ~InLog("start")
    /\ \/ /\ log' = log \o <<"start", "started">>
          /\ UNCHANGED <<phase, wifiErr>>
       \/ /\ log' = Append(log, "start")
          /\ Fail("HardwareFault")
    /\ UNCHANGED <<CONFIG, mainVars, config, addr, timer, httpVars, sleeps>>

\* "started" observed: an access point is Ready, a station begins to associate.
StartedProceed ==
    /\ pc = "in_wifi"
    /\ phase = "Starting"
    /\ InLog("started")
    /\ IF config.ap
       THEN /\ phase' = "Ready"
            /\ log' = log
       ELSE /\ phase' = "Associating"
            /\ log' = Append(log, "connect")
    /\ timer' = 0
    /\ UNCHANGED <<CONFIG, mainVars, config, wifiErr, addr, httpVars, sleeps>>

\* The event loop reports the association.
AssocEvent ==
    /\ pc = "in_wifi"
    /\ phase = "Associating"
    /\ log' = Append(log, "associated")
    /\ phase' = "AcquiringAddress"
    /\ timer' = 0
    /\ UNCHANGED <<CONFIG, mainVars, config, wifiErr, addr, httpVars, sleeps>>

\* The event loop reports the acquired address.
AddrEvent ==
    /\ pc = "in_wifi"
    /\ phase = "AcquiringAddress"
    /\ \E a \in Addresses : addr' = a
    /\ log' = Append(log, "got_address")
    /\ phase' = "Ready"
    /\ UNCHANGED <<CONFIG, mainVars, config, wifiErr, timer, httpVars, sleeps>>

WaitBound == IF phase = "Associating" THEN AssocTimeout ELSE AddrTimeout

\* Time passes in a blocking phase.
Tick ==
    /\ pc = "in_wifi"
    /\ phase \in {"Associating", "AcquiringAddress"}
    /\ timer < WaitBound
    /\ timer' = timer + 1
    /\ UNCHANGED <<CONFIG, mainVars, config, phase, wifiErr, addr, log, httpVars, sleeps>>

\* The bound of a blocking phase expires.
TimeoutExpire ==
    /\ pc = "in_wifi"
    /\ phase \in {"Associating", "AcquiringAddress"}
    /\ timer = WaitBound
    /\ Fail(IF phase = "Associating" THEN "AssociationTimeout"
                                     ELSE "AddressAcquisitionTimeout")
    /\ UNCHANGED <<CONFIG, mainVars, config, addr, timer, log, httpVars, sleeps>>

\* Steps the controller takes by itself.
BringUpStep ==
    \/ Configure
    \/ StartIface
    \/ StartedProceed
    \/ Tick
    \/ TimeoutExpire

\* Events delivered by the system event loop.
BringUpEvent ==
    \/ AssocEvent
    \/ AddrEvent

----------------------------------------------------------------------------
(* The GET "/" handler closure, lines 50-54, run by the server's own task *)

Servable ==
    /\ exit = "running"
    /\ server = "running"
    /\ \E i \in 1..Len(routes) : routes[i] = [uri |-> "/", method |-> "GET"]

\* request.into_ok_response()? and response.write_all(..)? both succeed
HandlerOk ==
    /\ served' = served + 1
    /\ failed' = failed
    /\ lastResponse' = [status |-> "200", body |-> index_html]
    /\ UNCHANGED <<CONFIG, mainVars, ctlVars, server, routes, sleeps>>

\* Variant: the handler unwraps instead of returning the error.
HandlerErrPanics ==
    /\ failed' = failed + 1
    /\ served' = served
    /\ lastResponse' = [status |-> "none", body |-> ""]
    /\ pc' = "exited"
    /\ exit' = "panic"
    /\ wifiHandle' = "dropped"
    /\ server' = "dropped"
    /\ UNCHANGED <<CONFIG, peripherals, mainErr, wifiResult>>
    /\ UNCHANGED <<ctlVars, routes, sleeps>>

\* one of the two `?` returns Err to the server
HandlerErr ==
    /\ failed' = failed + 1
    /\ served' = served
    /\ \/ lastResponse' = [status |-> "none", body |-> ""]
       \/ lastResponse' = [status |-> "200", body |-> ""]
    /\ UNCHANGED <<CONFIG, mainVars, ctlVars, server, routes, sleeps>>

HandleRequest ==
    /\ Servable
    /\ served + failed < MaxRequests
    /\ \/ HandlerOk
       \/ HandlerErr

----------------------------------------------------------------------------

Next ==
    \/ MainNext
    \/ BringUpStep
    \/ BringUpEvent
    \/ HandleRequest

Spec == Init /\ [][Next]_vars

\* The controller runs and wifi(...) returns; time passes while it blocks.
FairSpec ==
    /\ Spec
    /\ WF_vars(BringUpStep)
    /\ WF_vars(WifiReturnOk \/ WifiReturnErr)

----------------------------------------------------------------------------
(* Properties *)

BringUpErrors ==
    {"ConfigInvalid", "HardwareFault", "AssociationTimeout",
     "AddressAcquisitionTimeout"}

ValidStation(c) == ~c.wifi_ap /\ c.wifi_ssid # ""

ValidAp(c) == c.wifi_ap /\ (c.wifi_psk = "" \/ Len(c.wifi_psk) >= MinPskLen)

StationEmptySsid(c) == ~c.wifi_ap /\ c.wifi_ssid = ""

Requests == served + failed

\* C1 as stated: nothing is registered or handled before wifi(...) has
\* returned Ready, and once main is through its startup steps after Ready
\* (it is neither constructing the server nor registering the route)
\* exactly one route is registered.
C1_Original_ExactlyOneAfterReady ==
    /\ (server # "none" \/ Len(routes) > 0 \/ served + failed > 0)
          => wifiResult = "Ready"
    /\ (wifiResult = "Ready" /\ pc \notin {"server_new", "fn_handler"})
          => Len(routes) = 1

\* C1 amended: no route is registered, no server exists and no request is
\* handled unless wifi(...) has returned Ready; at most one route is ever
\* registered; once fn_handler has returned Ok exactly one is; and none is
\* when the server construction or the registration failed and main exited.
C1_RouteOnlyAfterReady ==
    /\ Len(routes) <= 1
    /\ (server # "none" \/ Len(routes) > 0 \/ Requests > 0)
          => (wifiResult = "Ready" /\ phase = "Ready")
    /\ pc \in {"take_peripherals", "take_sysloop", "call_wifi", "in_wifi",
               "server_new", "fn_handler"}
          => (routes = <<>> /\ Requests = 0)
    /\ pc \in {"println", "idle"}
          => routes = <<[uri |-> "/", method |-> "GET"]>>
    /\ (pc = "exited" /\ wifiResult = "Ready")
          => (routes = <<>> /\ Requests = 0 /\ mainErr = "EspError")

C1_Witness ==
    /\ wifiResult = "Ready"
    /\ Len(routes) = 1
    /\ served >= 1

\* C2: when the bring-up has Failed, its error is one of the four bring-up
\* errors, main returns that same error and exits with a failure status, and
\* no server is constructed, no route registered and no request handled.
C2_FailurePropagates ==
    phase = "Failed" =>
        /\ wifiErr \in BringUpErrors
        /\ server = "none"
        /\ routes = <<>>
        /\ Requests = 0
        /\ wifiHandle = "none"
        /\ pc \in {"in_wifi", "exited"}
        /\ pc = "exited" =>
              (exit = "err" /\ mainErr = wifiErr /\ wifiResult = wifiErr)

C2_Witness ==
    /\ phase = "Failed"
    /\ pc = "exited"
    /\ exit = "err"
    /\ mainErr = "HardwareFault"

\* C3 as stated: once wifi(...) has returned Ready the process never exits
\* and the radio handle is never dropped.
C3_Original_NoExitAfterReady ==
    [][(wifiResult = "Ready" /\ exit = "running")
          => (exit' = "running" /\ wifiHandle' = "held")]_vars

\* C3 amended: once main has entered the idle loop it stays there, the
\* process keeps running and the radio handle and the server stay alive; the
\* process exits only before the idle loop is entered (which includes a
\* failure to construct the server or register the route after Ready).
C3_IdleForever ==
    /\ [](exit # "running" => (pc = "exited" /\ sleeps = 0 /\ routes = <<>>))
    /\ [][pc = "idle" => (/\ pc' = "idle"
                          /\ exit' = "running"
                          /\ wifiHandle' = "held"
                          /\ server' = "running")]_vars

C3_Witness ==
    /\ pc = "idle"
    /\ sleeps >= 1
    /\ wifiHandle = "held"
    /\ exit = "running"

\* C4 as stated: when the peripherals cannot be taken, main returns a
\* HardwareFault error value and the bring-up is never called.
C4_Original_TakeFailureIsErr ==
    (peripherals = "unavailable" /\ pc # "take_peripherals") =>
        (exit = "err" /\ mainErr = "HardwareFault" /\ phase = "Idle")

\* C4 amended: when the peripherals cannot be taken, main panics (the
\* process ends abnormally without an error value being returned) and the
\* bring-up is never called.
C4_TakeFailurePanics ==
    (peripherals = "unavailable" /\ pc # "take_peripherals") =>
        /\ pc = "exited"
        /\ exit = "panic"
        /\ mainErr = "none"
        /\ phase = "Idle"
        /\ wifiResult = "none"
        /\ log = <<>>

C4_Witness ==
    /\ peripherals = "unavailable"
    /\ exit = "panic"

\* C5: with a station configuration whose ssid is empty (the default
\* configuration is one), the bring-up fails with ConfigInvalid and no call
\* is ever made on the interface.
C5_EmptySsidConfigInvalid ==
    /\ StationEmptySsid(DefaultConfig)
    /\ StationEmptySsid(CONFIG) =>
          /\ log = <<>>
          /\ phase \in {"Idle", "Configuring", "Failed"}
          /\ phase = "Failed" => wifiErr = "ConfigInvalid"
          /\ wifiResult \in {"none", "ConfigInvalid"}

C5_Witness ==
    /\ CONFIG = DefaultConfig
    /\ phase = "Failed"
    /\ wifiResult = "ConfigInvalid"
    /\ log = <<>>

\* C6: with a valid station configuration, Ready is reached only with an
\* assigned address, after "associated" and then "got_address" were seen in
\* that order, and the only errors are AssociationTimeout,
\* AddressAcquisitionTimeout and HardwareFault.
C6_StationReadyHasAddress ==
    ValidStation(CONFIG) =>
        /\ (phase = "Ready" \/ wifiResult = "Ready") =>
              /\ addr \in Addresses
              /\ \E i, j \in 1..Len(log) :
                    /\ i < j
                    /\ log[i] = "associated"
                    /\ log[j] = "got_address"
        /\ phase = "Failed" =>
              wifiErr \in {"AssociationTimeout", "AddressAcquisitionTimeout",
                           "HardwareFault"}
        /\ wifiResult \in {"none", "Ready", "AssociationTimeout",
                           "AddressAcquisitionTimeout", "HardwareFault"}

C6_Witness ==
    /\ ValidStation(CONFIG)
    /\ wifiResult = "Ready"
    /\ addr \in Addresses

CountOf(e) == Cardinality({i \in 1..Len(log) : log[i] = e})

\* C7: with a valid station configuration the call of wifi(...) always
\* returns, Ready or Failed, even if no association or address event ever
\* arrives; the waits never exceed their bounds and association is
\* attempted at most once.
C7_StationBringUpTerminates ==
    /\ (pc = "in_wifi" /\ ValidStation(CONFIG))
          ~> (wifiResult # "none" /\ phase \in {"Ready", "Failed"})
    /\ [](ValidStation(CONFIG) =>
            /\ timer <= AssocTimeout \/ timer <= AddrTimeout
            /\ phase = "Associating" => timer <= AssocTimeout
            /\ phase = "AcquiringAddress" => timer <= AddrTimeout
            /\ CountOf("connect") <= 1)

C7_Witness ==
    /\ ValidStation(CONFIG)
    /\ wifiResult = "AssociationTimeout"
    /\ timer = AssocTimeout
    /\ ~InLog("associated")

\* C8: with a valid access-point configuration, Ready is entered only from
\* a state in which "started" was already observed, no association or
\* address wait is ever entered, and Ready carries no address.
C8_ApReadyAfterStarted ==
    /\ [](ValidAp(CONFIG) =>
            /\ phase \notin {"Associating", "AcquiringAddress"}
            /\ addr = "none"
            /\ phase = "Ready" =>
                  log = <<"set_configuration", "start", "started">>)
    /\ [][(ValidAp(CONFIG) /\ phase # "Ready" /\ phase' = "Ready")
             => (phase = "Starting" /\ InLog("started"))]_vars

C8_Witness ==
    /\ ValidAp(CONFIG)
    /\ wifiResult = "Ready"
    /\ addr = "none"

\* C9: a request whose handler fails changes nothing but the responder's
\* own record of it: main stays where it is, the process keeps running, the
\* interface stays Ready and held, and the route stays servable.
C9_HandlerFailureIsLocal ==
    /\ [](failed > 0 =>
            /\ exit = "running"
            /\ pc \in {"println", "idle"}
            /\ phase = "Ready"
            /\ wifiHandle = "held"
            /\ Servable)
    /\ [][failed' # failed =>
            UNCHANGED <<pc, exit, mainErr, phase, wifiHandle, server, routes,
                        served>>]_vars

C9_Witness ==
    /\ failed >= 1
    /\ served = 1
    /\ lastResponse = [status |-> "200", body |-> index_html]

Rank(p) ==
    CASE p = "Idle" -> 0
      [] p = "Configuring" -> 1
      [] p = "Starting" -> 2
      [] p = "Associating" -> 3
      [] p = "AcquiringAddress" -> 4
      [] p = "Ready" -> 5
      [] p = "Failed" -> 6

\* C10: the phase only moves forward in the order Idle, Configuring,
\* Starting, Associating, AcquiringAddress, Ready; Failed is entered only
\* from the four working phases; Ready and Failed are never left; the
\* interface is configured at most once.
C10_PhaseForwardOnly ==
    /\ [](CountOf("set_configuration") <= 1)
    /\ [][phase' # phase =>
            /\ phase \notin {"Ready", "Failed"}
            /\ phase' # "Idle"
            /\ Rank(phase') > Rank(phase)
            /\ phase' = "Failed" =>
                  phase \in {"Configuring", "Starting", "Associating",
                             "AcquiringAddress"}]_vars

C10_Witness ==
    /\ phase = "Failed"
    /\ wifiErr = "AddressAcquisitionTimeout"
    /\ log = <<"set_configuration", "start", "started", "connect", "associated">>
====
